---------------------------- MODULE Spec2Model ----------------------------
(***************************************************************************)
(* Model of topology_docker's platform.py: the DockerPlatform plugin       *)
(* (add_node / add_biport / add_bilink / post_build / destroy) and the     *)
(* DockerNode objects it drives, together with the part of the machine     *)
(* the plugin acts on through docker-py and check_call: the containers,    *)
(* the /var/run/netns registry and the kernel's network interfaces.        *)
(*                                                                         *)
(* Every external command either does what it does on a Linux host or      *)
(* exits non-zero; check_call turns a non-zero exit into an exception      *)
(* that leaves the handler at once.  A command can fail because the        *)
(* machine refuses it (a name that exists already, a namespace that is     *)
(* gone) or for a reason outside the model (the handler's input `f` names  *)
(* the step that fails that way, 0 for none; `faults` counts them).        *)
(*                                                                         *)
(* Spec is the platform and the machine.  SessionSpec is the bash session  *)
(* of one node taken alone (DockerNode.bash, DockerSwitch.vtysh): the      *)
(* child writing to its terminal and the caller's sendline, sleep, expect. *)
(***************************************************************************)
EXTENDS Integers, Sequences, FiniteSets, TLC

\* Bound: how many containers the docker daemon ever creates in one run.
MaxContainers == 2

\* Bound: how many commands fail for an outside reason in one run.
MaxFaults == 1

\* Bound: how many command lines a caller sends through one bash session.
MaxCommands == 2

\* The topology the caller declares: a switch H1 with two ports and a host
\* H2 with one, whose port carries the name of H1's first port.
NodeIds == {"H1", "H2"}
Ports == {"eth0", "eth1"}
Endpoints == {<<"H1", "eth0">>, <<"H1", "eth1">>, <<"H2", "eth0">>}

\* metadata['type'] values a caller passes for each node; "unset" is a node
\* without the key, "router" a type the plugin does not know.
TypesOf(id) == IF id = "H1" THEN {"unset", "switch", "router"} ELSE {"host", "router"}

NoNode == [cls |-> "none"]
HostNs == 0
CIds == 1..MaxContainers

VARIABLES
    nmlnode_node_map,  \* DockerPlatform.nmlnode_node_map: identifier -> enode
    containers,        \* docker daemon: container id -> [name, state]
    netns,             \* /var/run/netns: name -> container whose netns it names
    veths,             \* kernel: the veth pairs, each end with its namespace
    taps,              \* kernel: the tap interfaces, each with its namespace
    hist,              \* history of the ports of each registered enode
    faults,            \* how many commands have failed for an outside reason
    last,              \* the last call made on the platform and how it ended
    child,             \* DockerNode._bash: the process spawn() started
    todo,              \* what the child has still to write to its terminal
    pty,               \* what the child has written and expect() has not read
    buffer,            \* DockerNode._bash.buffer
    after,             \* DockerNode._bash.after
    sent,              \* how many command lines bash() has sent
    pc                 \* where the caller of bash() is

\* The bash session of one DockerNode.
svars == <<child, todo, pty, buffer, after, sent, pc>>

vars == <<nmlnode_node_map, containers, netns, veths, taps, hist, faults, last,
          child, todo, pty, buffer, after, sent, pc>>

-----------------------------------------------------------------------------
(* The machine: docker daemon, netns registry, kernel interfaces.          *)

\* The machine state the commands act on, as one record.
Machine == [containers |-> containers, netns |-> netns, veths |-> veths, taps |-> taps]

\* The outcome of one command: did it exit 0, and the machine afterwards.
Done(k) == [ok |-> TRUE, k |-> k]
Refused(k) == [ok |-> FALSE, k |-> k]

\* Names of the interfaces that exist in namespace ns.
NamesIn(k, ns) ==
    {v.a.name : v \in {w \in k.veths : w.a.ns = ns}}
        \cup {v.b.name : v \in {w \in k.veths : w.b.ns = ns}}
        \cup {t.name : t \in {u \in k.taps : u.ns = ns}}

\* Containers the daemon knows (created and not removed).
Exists(k, c) == k.containers[c].state \in {"created", "running", "exited"}

\* /var/run/netns/<name> resolves to the netns of a live process.
NsLive(k, name) ==
    /\ k.netns[name] # 0
    /\ k.containers[k.netns[name]].state = "running"

(* docker-py Client calls.  A call on a container the daemon does not know *)
(* answers 404 and docker-py raises APIError.                              *)

\* The container named `name`, or 0: names are unique among known containers.
ByName(k, name) ==
    LET cs == {c \in CIds : Exists(k, c) /\ k.containers[c].name = name}
    IN  IF cs = {} THEN 0 ELSE CHOOSE c \in cs : TRUE

\* The id the daemon gives the next container, or 0 when the bound is reached.
FreshId(k) ==
    LET free == {c \in CIds : k.containers[c].state = "none"}
    IN  IF free = {} THEN 0 ELSE CHOOSE c \in free : \A d \in free : c <= d

\* Client.create_container(name=name): 409 when the name is taken.
CreateContainer(k, name) ==
    IF ByName(k, name) # 0 \/ FreshId(k) = 0 THEN Refused(k)
    ELSE Done([k EXCEPT !.containers[FreshId(k)] = [name |-> name, state |-> "created"]])

\* Client.start(id).
StartContainer(k, c) ==
    IF ~Exists(k, c) THEN Refused(k)
    ELSE Done([k EXCEPT !.containers[c].state = "running"])

\* The kernel frees a network namespace with its last process: the taps in
\* it go, and so does every veth pair with an end in it (both ends).
DropNs(k, c) ==
    [k EXCEPT !.veths = {v \in k.veths : v.a.ns # c /\ v.b.ns # c},
              !.taps = {t \in k.taps : t.ns # c}]

\* Client.stop(id): stopping a container that is not running changes nothing.
StopContainer(k, c) ==
    IF ~Exists(k, c) THEN Refused(k)
    ELSE IF k.containers[c].state = "running"
         THEN Done([DropNs(k, c) EXCEPT !.containers[c].state = "exited"])
         ELSE Done(k)

\* Client.wait(id).
WaitContainer(k, c) == IF Exists(k, c) THEN Done(k) ELSE Refused(k)

\* Client.remove_container(id): 409 on a running container.
RemoveContainer(k, c) ==
    IF k.containers[c].state \in {"created", "exited"}
    THEN Done([k EXCEPT !.containers[c].state = "removed"])
    ELSE Refused(k)

\* Client.inspect_container(id)['State']['Pid'].
InspectContainer(k, c) == IF Exists(k, c) THEN Done(k) ELSE Refused(k)

(* Shell commands run through check_call.                                  *)

\* mkdir -p /var/run/netns
MkdirNetns(k) == Done(k)

\* ln -s /proc/{pid}/ns/net /var/run/netns/{name}: fails when the entry exists.
LnNetns(k, name, c) ==
    IF k.netns[name] # 0 THEN Refused(k)
    ELSE Done([k EXCEPT !.netns[name] = c])

\* ip netns del {name}: fails when there is no such entry.
IpNetnsDel(k, name) ==
    IF k.netns[name] = 0 THEN Refused(k)
    ELSE Done([k EXCEPT !.netns[name] = 0])

\* ip link add {intf_a} type veth peer name {intf_b}, in the host namespace:
\* the two names must differ and be free there.
IpLinkAddVeth(k, intf_a, intf_b) ==
    IF intf_a = intf_b \/ {intf_a, intf_b} \cap NamesIn(k, HostNs) # {} THEN Refused(k)
    ELSE Done([k EXCEPT !.veths = @ \cup
                {[a |-> [ns |-> HostNs, name |-> intf_a, up |-> FALSE],
                  b |-> [ns |-> HostNs, name |-> intf_b, up |-> FALSE]]}])

\* The veth pair v with its end called intf in namespace ns replaced by e.
MapEnd(v, ns, intf, e) ==
    IF v.a.ns = ns /\ v.a.name = intf THEN [v EXCEPT !.a = e]
    ELSE IF v.b.ns = ns /\ v.b.name = intf THEN [v EXCEPT !.b = e]
    ELSE v

\* ip link set {intf} netns {name}: the interface must exist in the host
\* namespace, the namespace must be live and must hold no interface of
\* that name.  A moved interface arrives down.
IpLinkSetNetns(k, intf, name) ==
    IF intf \notin NamesIn(k, HostNs) \/ ~NsLive(k, name)
          \/ intf \in NamesIn(k, k.netns[name])
    THEN Refused(k)
    ELSE LET moved == [ns |-> k.netns[name], name |-> intf, up |-> FALSE]
         IN  Done([k EXCEPT !.veths = {MapEnd(v, HostNs, intf, moved) : v \in k.veths}])

\* ip netns exec {name} ip link set dev {intf} up
IpLinkSetUp(k, name, intf) ==
    IF ~NsLive(k, name) \/ intf \notin NamesIn(k, k.netns[name]) THEN Refused(k)
    ELSE LET up == [ns |-> k.netns[name], name |-> intf, up |-> TRUE]
         IN  Done([k EXCEPT !.veths = {MapEnd(v, k.netns[name], intf, up) : v \in k.veths}])

\* docker exec {name} ip tuntap add dev {port} mode tap: the container is
\* found by name and must be running; the name must be free in its
\* namespace, or belong to a tap already (the command then attaches to it).
TuntapAdd(k, name, port) ==
    LET c == ByName(k, name)
    IN  IF c = 0 THEN Refused(k)
        ELSE IF k.containers[c].state # "running" THEN Refused(k)
        ELSE IF port \in NamesIn(k, c) /\ [ns |-> c, name |-> port] \notin k.taps
             THEN Refused(k)
        ELSE Done([k EXCEPT !.taps = @ \cup {[ns |-> c, name |-> port]}])

-----------------------------------------------------------------------------
(* Running a list of commands the way the handlers do: one after the       *)
(* other, the first failure raising out of the handler.                    *)

\* What one command does to the machine.
Apply(k, cmd) ==
    CASE cmd.op = "create"   -> CreateContainer(k, cmd.x)
      [] cmd.op = "start"    -> StartContainer(k, cmd.c)
      [] cmd.op = "inspect"  -> InspectContainer(k, cmd.c)
      [] cmd.op = "mkdir"    -> MkdirNetns(k)
      [] cmd.op = "ln"       -> LnNetns(k, cmd.x, cmd.c)
      [] cmd.op = "stop"     -> StopContainer(k, cmd.c)
      [] cmd.op = "wait"     -> WaitContainer(k, cmd.c)
      [] cmd.op = "remove"   -> RemoveContainer(k, cmd.c)
      [] cmd.op = "netnsdel" -> IpNetnsDel(k, cmd.x)
      [] cmd.op = "veth"     -> IpLinkAddVeth(k, cmd.x, cmd.y)
      [] cmd.op = "move"     -> IpLinkSetNetns(k, cmd.x, cmd.y)
      [] cmd.op = "up"       -> IpLinkSetUp(k, cmd.y, cmd.x)
      [] cmd.op = "tuntap"   -> TuntapAdd(k, cmd.y, cmd.x)

\* The exception a failed command raises: docker-py's APIError for a Client
\* call, subprocess.CalledProcessError for a check_call.
ErrorOf(cmd) ==
    IF cmd.op \in {"create", "start", "inspect", "stop", "wait", "remove"}
    THEN "APIError" ELSE "CalledProcessError"

Cmd(op, c, x, y) == [op |-> op, c |-> c, x |-> x, y |-> y]

\* Runs cmds[i..] on k; command number f fails for an outside reason.
\* Gives the machine afterwards, the number n of commands that succeeded,
\* the result ("ok" or the exception raised) and whether the failure was
\* the outside one.
RECURSIVE Exec(_, _, _, _)
Exec(k, cmds, i, f) ==
    IF i > Len(cmds) THEN [k |-> k, n |-> i - 1, result |-> "ok", outside |-> FALSE]
    ELSE LET r == IF f = i THEN Refused(k) ELSE Apply(k, cmds[i])
         IN  IF r.ok THEN Exec(r.k, cmds, i + 1, f)
             ELSE [k |-> k, n |-> i - 1, result |-> ErrorOf(cmds[i]), outside |-> f = i]

\* The orders in which a for loop can visit the keys of a dict.
RECURSIVE Orders(_)
Orders(S) ==
    IF S = {} THEN {<<>>}
    ELSE UNION {{<<x>> \o o : o \in Orders(S \ {x})} : x \in S}

-----------------------------------------------------------------------------
(* DockerNode                                                              *)

PortStatus == {"none", "down", "linked", "up"}

\* A DockerNode object: its class, the container it created and its
\* _port_status dict ("none": the key is absent).
Enode(cls, c) ==
    [cls |-> cls, container_id |-> c, port_status |-> [p \in Ports |-> "none"]]

\* DockerNode.add_port
add_port(enode, port) == [enode EXCEPT !.port_status[port] = "down"]

\* An add_link that forgets to mark the port.
add_link_forgotten(enode, port) == enode

\* DockerNode.add_link
add_link(enode, port) == [enode EXCEPT !.port_status[port] = "linked"]

\* DockerNode.start: the commands of Client.start and _create_netns.
StartCmds(name, c) ==
    <<Cmd("start", c, name, name), Cmd("inspect", c, name, name),
      Cmd("mkdir", c, name, name), Cmd("ln", c, name, name)>>

\* DockerNode.stop: the commands, in the order of the code.
StopCmds(name, c) ==
    <<Cmd("stop", c, name, name), Cmd("wait", c, name, name),
      Cmd("remove", c, name, name), Cmd("netnsdel", c, name, name)>>

\* A command_template that moves both ends before it brings either up.
BilinkCmds_moves_first(netns_a, intf_a, netns_b, intf_b) ==
    <<Cmd("veth", 0, intf_a, intf_b),
      Cmd("move", 0, intf_a, netns_a), Cmd("move", 0, intf_b, netns_b),
      Cmd("up", 0, intf_a, netns_a), Cmd("up", 0, intf_b, netns_b)>>

\* DockerPlatform.add_bilink: the five lines of command_template.
BilinkCmds(netns_a, intf_a, netns_b, intf_b) ==
    <<Cmd("veth", 0, intf_a, intf_b),
      Cmd("move", 0, intf_a, netns_a), Cmd("up", 0, intf_a, netns_a),
      Cmd("move", 0, intf_b, netns_b), Cmd("up", 0, intf_b, netns_b)>>

\* History kept for the ports of the enode registered under an identifier:
\* tapped holds the ports create_unlinked_ports made a tap for, wired counts
\* for each port the add_bilink calls that returned (2: twice or more),
\* made counts for each port the tap commands that succeeded since add_port
\* last registered it (2: twice or more).
NoHist ==
    [tapped |-> {}, wired |-> [p \in Ports |-> 0], made |-> [p \in Ports |-> 0]]

Tapped(h, id, port) ==
    [h EXCEPT ![id].tapped = @ \cup {port},
              ![id].made[port] = IF @ = 0 THEN 1 ELSE 2]

\* add_port registers the port anew: the count of its taps starts again.
Ported(h, id, port) == [h EXCEPT ![id].made[port] = 0]

Wired(h, id, port) ==
    [h EXCEPT ![id].wired[port] = IF @ = 0 THEN 1 ELSE 2]

\* The platform and the machine together, as the handlers thread them.
World == [k |-> Machine, map |-> nmlnode_node_map, hist |-> hist]

\* A create_unlinked_ports that skips only the linked ports.
IsUnlinked_or_up(status) == status \in {"down", "up"}

\* create_unlinked_ports, line 200: the ports the loop makes a tap for.
IsUnlinked(status) == status = "down"

\* A create_unlinked_ports that forgets to mark the port.
mark_up_forgotten(map, id, port) == map

\* create_unlinked_ports, line 203: the port is marked once its tap exists.
mark_up(map, id, port) == [map EXCEPT ![id].port_status[port] = "up"]

\* DockerNode.create_unlinked_ports on the node registered under id, its
\* ports visited in the order ports[i..]; failing names the <<id, port>>
\* whose command fails for an outside reason.
RECURSIVE create_unlinked_ports(_, _, _, _, _)
create_unlinked_ports(w, id, ports, i, failing) ==
    IF i > Len(ports) THEN [w |-> w, result |-> "ok", outside |-> FALSE]
    ELSE LET port == ports[i]
             enode == w.map[id]
         IN  IF ~IsUnlinked(enode.port_status[port])
             THEN create_unlinked_ports(w, id, ports, i + 1, failing)
             ELSE LET r == IF failing = <<id, port>> THEN Refused(w.k)
                           ELSE TuntapAdd(w.k, id, port)
                  IN  IF ~r.ok
                      THEN [w |-> w, result |-> "CalledProcessError",
                            outside |-> failing = <<id, port>>]
                      ELSE create_unlinked_ports(
                               [k |-> r.k,
                                map |-> mark_up(w.map, id, port),
                                hist |-> Tapped(w.hist, id, port)],
                               id, ports, i + 1, failing)

\* DockerPlatform.post_build: the loop over nmlnode_node_map.values().
RECURSIVE post_build(_, _, _, _, _)
post_build(w, ids, j, ports, failing) ==
    IF j > Len(ids) THEN [w |-> w, result |-> "ok", outside |-> FALSE]
    ELSE IF w.map[ids[j]] = NoNode THEN post_build(w, ids, j + 1, ports, failing)
    ELSE LET r == create_unlinked_ports(w, ids[j], ports, 1, failing)
         IN  IF r.result # "ok" THEN r
             ELSE post_build(r.w, ids, j + 1, ports, failing)

\* DockerNode.stop on the node registered under id; step f fails for an
\* outside reason.
stop(k, map, id, f) == Exec(k, StopCmds(id, map[id].container_id), 1, f)

\* DockerPlatform.destroy: the loop over nmlnode_node_map.values(); failing
\* is <<id, step>>, the step of that node's stop that fails for an outside
\* reason.
RECURSIVE destroy(_, _, _, _, _)
destroy(k, map, ids, j, failing) ==
    IF j > Len(ids) THEN [k |-> k, result |-> "ok", outside |-> FALSE]
    ELSE IF map[ids[j]] = NoNode THEN destroy(k, map, ids, j + 1, failing)
    ELSE LET r == stop(k, map, ids[j], IF failing[1] = ids[j] THEN failing[2] ELSE 0)
         IN  IF r.result # "ok"
             THEN [k |-> r.k, result |-> r.result, outside |-> r.outside]
             ELSE destroy(r.k, map, ids, j + 1, failing)

-----------------------------------------------------------------------------
(* DockerPlatform: one action per plugin call.  pre_build has an empty     *)
(* body and is left out.                                                   *)

Call(op, result) == [op |-> op, result |-> result]

\* A call in which a command failed for an outside reason uses up one of
\* the run's faults.
Fault(outside) ==
    /\ outside => faults < MaxFaults
    /\ faults' = IF outside THEN faults + 1 ELSE faults

SetMachine(k) ==
    /\ containers' = k.containers
    /\ netns' = k.netns
    /\ veths' = k.veths
    /\ taps' = k.taps

\* No session is looked at: the platform calls never touch one.
NoSession ==
    /\ child = "none"
    /\ todo = <<>> /\ pty = <<>> /\ buffer = <<>> /\ after = <<>>
    /\ sent = 0
    /\ pc = "idle"

\* DockerPlatform.__init__: an empty registry, on a machine with nothing of
\* the topology on it.
NewPlatform ==
    /\ nmlnode_node_map = [id \in NodeIds |-> NoNode]
    /\ containers = [c \in CIds |-> [name |-> "-", state |-> "none"]]
    /\ netns = [id \in NodeIds |-> 0]
    /\ veths = {}
    /\ taps = {}
    /\ hist = [id \in NodeIds |-> NoHist]
    /\ faults = 0
    /\ last = Call("init", "ok")

Init == NewPlatform /\ NoSession

\* An add_node whose default type is 'host'.
NodeClass_default_host(t) ==
    LET node_type == IF t = "unset" THEN "host" ELSE t
    IN  IF node_type = "switch" THEN "DockerSwitch"
        ELSE IF node_type = "host" THEN "DockerHost"
        ELSE "none"

\* The class add_node builds for metadata type t, "none" for an unsupported type.
NodeClass(t) ==
    LET node_type == IF t = "unset" THEN "switch" ELSE t
    IN  IF node_type = "switch" THEN "DockerSwitch"
        ELSE IF node_type = "host" THEN "DockerHost"
        ELSE "none"

\* An add_node that sets the registry entry before it calls start().
Registers_once_built(r) == r.n >= 1

\* add_node, lines 73-75: the enode enters the registry once start() has
\* returned; r is the outcome of the constructor's and start()'s commands.
Registers(r) == r.result = "ok"

\* DockerPlatform.add_node(node) with node.identifier = id and
\* node.metadata type t: DockerNode.__init__ creates the container,
\* start() starts it and publishes its netns, then the registry is set.
AddNode(id, t, f) ==
    LET c == FreshId(Machine)
        r == Exec(Machine, <<Cmd("create", c, id, id)>> \o StartCmds(id, c), 1, f)
    IN  /\ c # 0
        /\ UNCHANGED svars
        /\ IF NodeClass(t) = "none"
           THEN /\ last' = Call("add_node", "Exception")
                /\ UNCHANGED <<nmlnode_node_map, containers, netns, veths, taps, hist,
                               faults>>
           ELSE /\ SetMachine(r.k)
                /\ Fault(r.outside)
                /\ last' = Call("add_node", r.result)
                /\ IF Registers(r)
                   THEN /\ nmlnode_node_map' =
                               [nmlnode_node_map EXCEPT ![id] = Enode(NodeClass(t), c)]
                        /\ hist' = [hist EXCEPT ![id] = NoHist]
                   ELSE UNCHANGED <<nmlnode_node_map, hist>>

\* DockerPlatform.add_biport(node, biport)
AddBiport(id, port) ==
    /\ IF nmlnode_node_map[id] = NoNode
       THEN /\ last' = Call("add_biport", "KeyError")
            /\ UNCHANGED <<nmlnode_node_map, hist>>
       ELSE /\ last' = Call("add_biport", "ok")
            /\ nmlnode_node_map' =
                   [nmlnode_node_map EXCEPT ![id] = add_port(@, port)]
            /\ hist' = Ported(hist, id, port)
    /\ UNCHANGED <<containers, netns, veths, taps, faults>>
    /\ UNCHANGED svars

\* DockerPlatform.add_bilink(nodeport_a, nodeport_b, bilink) with
\* nodeport_a = (ida, pa) and nodeport_b = (idb, pb).
AddBilink(ida, pa, idb, pb, f) ==
    LET r == Exec(Machine, BilinkCmds(ida, pa, idb, pb), 1, f)
    IN  IF nmlnode_node_map[ida] = NoNode \/ nmlnode_node_map[idb] = NoNode
        THEN /\ last' = Call("add_bilink", "KeyError")
             /\ UNCHANGED <<nmlnode_node_map, containers, netns, veths, taps, hist,
                            faults>>
             /\ UNCHANGED svars
        ELSE /\ UNCHANGED svars
             /\ SetMachine(r.k)
             /\ Fault(r.outside)
             /\ last' = Call("add_bilink", r.result)
             /\ IF r.result = "ok"
                THEN /\ nmlnode_node_map' =
                            [[nmlnode_node_map EXCEPT ![ida] = add_link(@, pa)]
                                EXCEPT ![idb] = add_link(@, pb)]
                     /\ hist' = Wired(Wired(hist, ida, pa), idb, pb)
                ELSE UNCHANGED <<nmlnode_node_map, hist>>

\* DockerPlatform.post_build()
PostBuild(ids, ports, failing) ==
    LET r == post_build(World, ids, 1, ports, failing)
    IN  /\ SetMachine(r.w.k)
        /\ Fault(r.outside)
        /\ nmlnode_node_map' = r.w.map
        /\ hist' = r.w.hist
        /\ last' = Call("post_build", r.result)
        /\ UNCHANGED svars

\* DockerPlatform.destroy()
Destroy(ids, failing) ==
    LET r == destroy(Machine, nmlnode_node_map, ids, 1, failing)
    IN  /\ SetMachine(r.k)
        /\ Fault(r.outside)
        /\ last' = Call("destroy", r.result)
        /\ UNCHANGED <<nmlnode_node_map, hist>>
        /\ UNCHANGED svars

NoFailure == <<"-", 0>>
NoPort == <<"-", "-">>

\* The steps a caller's run may see fail for an outside reason.
Failing(S) == IF faults < MaxFaults THEN S ELSE {}

Next ==
    \/ \E id \in NodeIds, f \in {0} \cup Failing(1..5) :
           \E t \in TypesOf(id) : AddNode(id, t, f)
    \/ \E e \in Endpoints : AddBiport(e[1], e[2])
    \/ \E ea \in Endpoints, eb \in Endpoints, f \in {0} \cup Failing(1..5) :
           AddBilink(ea[1], ea[2], eb[1], eb[2], f)
    \/ \E ids \in Orders(NodeIds), ports \in Orders(Ports),
          failing \in {NoPort} \cup Failing(Endpoints) :
           PostBuild(ids, ports, failing)
    \/ \E ids \in Orders(NodeIds),
          failing \in {NoFailure} \cup Failing(NodeIds \X (1..4)) :
           Destroy(ids, failing)

Spec == Init /\ [][Next]_vars

-----------------------------------------------------------------------------
(* DockerNode.bash: one round trip on the pexpect session of a node, the   *)
(* platform at rest.  DockerSwitch.vtysh is the same code on its own       *)
(* session.  The child writes to its terminal at its own pace; the caller  *)
(* sends a line, sleeps and expects '.*#'.                                 *)

\* The platform's variables, which no step of a session changes.
pvars == <<nmlnode_node_map, containers, netns, veths, taps, hist, faults, last>>

\* One byte on the terminal: the command line it answers (0: none) and
\* whether it is a '#'.
Byte(n, ch) == [cmd |-> n, ch |-> ch]

\* The '#' that ends the prompt bash writes once command line n is done.
Prompt(n) == Byte(n, "#")

\* What bash writes for command line n: the echo of the line, the output
\* of the command (neither holds a '#'), then its prompt.
Reply(n) == <<Byte(n, "o"), Byte(n, "o"), Prompt(n)>>

\* What 'docker exec' writes before it exits when the container does not
\* run: an error message without '#'.
NotRunning == <<Byte(0, "o")>>

\* re.search('.*#', b, DOTALL): there is a match when b holds a '#', and
\* it runs from the start of b through its last '#'.
HasHash(b) == \E i \in 1..Len(b) : b[i].ch = "#"

LastHash(b) ==
    CHOOSE i \in 1..Len(b) : b[i].ch = "#" /\ \A j \in (i + 1)..Len(b) : b[j].ch # "#"

\* spawn('docker exec -i -t {name} bash'), line 169, which __init__ runs
\* before start(): the exec reaches the daemon before or after the
\* container runs.  It either fails with a message and exits, or bash
\* starts and is about to write its first prompt.
SessionInit ==
    /\ NewPlatform
    /\ buffer = <<>> /\ after = <<>>
    /\ sent = 0
    /\ pc = "idle"
    /\ \/ child = "live" /\ todo = <<Prompt(0)>> /\ pty = <<>>
       \/ child = "dead" /\ todo = <<>> /\ pty = NotRunning

\* The child writes its next byte.
ChildWrite ==
    /\ child = "live" /\ todo # <<>>
    /\ pty' = Append(pty, Head(todo))
    /\ todo' = Tail(todo)
    /\ UNCHANGED <<child, buffer, after, sent, pc>>
    /\ UNCHANGED pvars

\* bash(), line 224: self._bash.sendline(command).  bash answers the lines
\* it is sent one after the other.
Sendline ==
    /\ pc \in {"idle", "returned", "TIMEOUT", "EOF"}
    /\ sent < MaxCommands
    /\ sent' = sent + 1
    /\ todo' = IF child = "live" THEN todo \o Reply(sent + 1) ELSE todo
    /\ pc' = "sleep"
    /\ UNCHANGED <<child, pty, buffer, after>>
    /\ UNCHANGED pvars

\* bash(), line 225: time.sleep(0.2).
Sleep ==
    /\ pc = "sleep"
    /\ pc' = "expect"
    /\ UNCHANGED <<child, todo, pty, buffer, after, sent>>
    /\ UNCHANGED pvars

\* bash(), lines 231-232: expect() finds the pattern in its buffer; after
\* is the match, the buffer keeps the rest, and bash() returns after.
ExpectMatch ==
    /\ pc = "expect"
    /\ HasHash(buffer)
    /\ after' = SubSeq(buffer, 1, LastHash(buffer))
    /\ buffer' = SubSeq(buffer, LastHash(buffer) + 1, Len(buffer))
    /\ pc' = "returned"
    /\ UNCHANGED <<child, todo, pty, sent>>
    /\ UNCHANGED pvars

\* bash(), line 231: without a match expect() reads what the terminal
\* holds into its buffer.
ExpectRead ==
    /\ pc = "expect"
    /\ ~HasHash(buffer)
    /\ pty # <<>>
    /\ buffer' = buffer \o pty
    /\ pty' = <<>>
    /\ UNCHANGED <<child, todo, after, sent, pc>>
    /\ UNCHANGED pvars

\* bash(), line 231: nothing to read for the length of the timeout:
\* expect() raises pexpect.TIMEOUT.
ExpectTimeout ==
    /\ pc = "expect"
    /\ ~HasHash(buffer)
    /\ pty = <<>>
    /\ child = "live"
    /\ pc' = "TIMEOUT"
    /\ UNCHANGED <<child, todo, pty, buffer, after, sent>>
    /\ UNCHANGED pvars

\* bash(), line 231: nothing to read and the child has exited: expect()
\* empties its buffer and raises pexpect.EOF.
ExpectEOF ==
    /\ pc = "expect"
    /\ ~HasHash(buffer)
    /\ pty = <<>>
    /\ child = "dead"
    /\ buffer' = <<>>
    /\ pc' = "EOF"
    /\ UNCHANGED <<child, todo, pty, after, sent>>
    /\ UNCHANGED pvars

SessionNext ==
    \/ ChildWrite
    \/ Sendline
    \/ Sleep
    \/ ExpectMatch
    \/ ExpectRead
    \/ ExpectTimeout
    \/ ExpectEOF

SessionSpec == SessionInit /\ [][SessionNext]_vars

-----------------------------------------------------------------------------
(* Properties.                                                             *)

Registered(id) == nmlnode_node_map[id] # NoNode
StatusOf(e) == nmlnode_node_map[e[1]].port_status[e[2]]

\* The enode registered under id is the same object before and after a step.
SameEnode(id) ==
    /\ Registered(id)
    /\ nmlnode_node_map'[id] # NoNode
    /\ nmlnode_node_map'[id].container_id = nmlnode_node_map[id].container_id

\* The container of the enode registered under id is running.
Running(id) ==
    /\ Registered(id)
    /\ containers[nmlnode_node_map[id].container_id].state = "running"

\* C1: the status of a port only moves from 'down' to 'linked' or from
\* 'down' to 'up'; a port that is 'linked' or 'up' keeps that status in
\* every later step.
C1_StatusMonotone ==
    [][\A e \in Endpoints :
          SameEnode(e[1]) /\ StatusOf(e) \in {"linked", "up"}
              => StatusOf(e)' = StatusOf(e)]_vars

\* The tap called port in the namespace of the container named id.
TapOf(k, id, port) == [ns |-> ByName(k, id), name |-> port]

Wirable(ea, eb) ==
    /\ ea # eb
    /\ Running(ea[1]) /\ Running(eb[1])
    /\ StatusOf(ea) = "down" /\ StatusOf(eb) = "down"

\* C3: an add_bilink on a request that is not wirable is rejected: it
\* raises, makes no interface and changes no port status.
C3_InvalidWireRejected ==
    [][\A ea \in Endpoints, eb \in Endpoints, f \in 0..5 :
          AddBilink(ea[1], ea[2], eb[1], eb[2], f) /\ ~Wirable(ea, eb)
              => /\ last'.result # "ok"
                 /\ UNCHANGED <<veths, nmlnode_node_map>>]_vars

\* C4: once destroy has returned, no container the platform created is
\* known to the daemon and no netns entry it published is left.
C4_NothingLeftBehind ==
    last = Call("destroy", "ok")
        => /\ \A c \in CIds : ~Exists(Machine, c)
           /\ \A id \in NodeIds : netns[id] = 0

\* C5: a destroy in which the stop of one node fails still stops every
\* other node of the registry.
C5_DestroyGoesOn ==
    [][\A ids \in Orders(NodeIds), failing \in NodeIds \X (1..4) :
          Destroy(ids, failing)
              => \A id \in NodeIds \ {failing[1]} :
                     Registered(id) =>
                         containers'[nmlnode_node_map[id].container_id].state # "running"]_vars

\* C6: a destroy called after a destroy that returned completes without
\* error and changes nothing on the machine.
C6_SecondDestroyNoOp ==
    [][\A ids \in Orders(NodeIds) :
          last = Call("destroy", "ok") /\ Destroy(ids, NoFailure)
              => /\ last'.result = "ok"
                 /\ UNCHANGED <<containers, netns, veths, taps>>]_vars

\* Two hosts just started, one port 'eth0' registered on each, nothing wired.
TwoHostsOnePortEach ==
    /\ Running("H1") /\ Running("H2")
    /\ NsLive(Machine, "H1") /\ NsLive(Machine, "H2")
    /\ StatusOf(<<"H1", "eth0">>) = "down"
    /\ StatusOf(<<"H2", "eth0">>) = "down"
    /\ veths = {} /\ taps = {}

\* C7: add_bilink((H1,eth0),(H2,eth0)) on two hosts just started, with no
\* command failing for an outside reason, returns and leaves both ports
\* 'linked'.
C7_SameNameLinkSucceeds ==
    [][TwoHostsOnePortEach /\ AddBilink("H1", "eth0", "H2", "eth0", 0)
          => /\ last'.result = "ok"
             /\ StatusOf(<<"H1", "eth0">>)' = "linked"
             /\ StatusOf(<<"H2", "eth0">>)' = "linked"]_vars

\* C8: an add_bilink called once post_build has returned is refused.
C8_NoLinkAfterPostBuild ==
    [][last = Call("post_build", "ok") /\ last'.op = "add_bilink"
          => last'.result # "ok"]_vars

\* C9: no port of a registered node has both been given a tap by
\* post_build and been wired by an add_bilink that returned.
C9_NeverTappedAndWired ==
    \A e \in Endpoints :
        Registered(e[1]) => ~(e[2] \in hist[e[1]].tapped /\ hist[e[1]].wired[e[2]] > 0)

\* C10: at most one add_bilink that returned names a given port of a
\* registered node.
C10_AtMostOneLink ==
    \A e \in Endpoints : Registered(e[1]) => hist[e[1]].wired[e[2]] <= 1

\* C11: an add_node without a metadata type that returns has registered a
\* DockerSwitch; an add_node with a type other than 'switch' and 'host'
\* raises the unsupported-type exception, having created and started no
\* container, published no netns and left the registry alone.
C11_DefaultSwitchElseRejected ==
    [][\A id \in NodeIds, f \in 0..5 :
          /\ last'.op = "add_node" /\ AddNode(id, "unset", f) /\ last'.result = "ok"
                => nmlnode_node_map'[id].cls = "DockerSwitch"
          /\ last'.op = "add_node" /\ AddNode(id, "router", f)
                => /\ last'.result = "Exception"
                   /\ UNCHANGED <<containers, netns, veths, taps, nmlnode_node_map>>]_vars

\* C11 witness: the switch H1 is registered and runs, and the add_node of
\* H2 with an unsupported type has just been rejected: one container only.
C11_Witness ==
    /\ last = Call("add_node", "Exception")
    /\ Running("H1") /\ nmlnode_node_map["H1"].cls = "DockerSwitch"
    /\ ~Registered("H2")
    /\ Cardinality({c \in CIds : containers[c].state # "none"}) = 1

\* C12: an add_biport on a port the node has already raises and leaves
\* the status of that port as it was.
C12_DuplicatePortRejected ==
    [][\A e \in Endpoints :
          AddBiport(e[1], e[2]) /\ Registered(e[1]) /\ StatusOf(e) # "none"
              => /\ last'.result # "ok"
                 /\ StatusOf(e)' = StatusOf(e)]_vars

\* C13: in a destroy whose first stop() has its stop, wait or remove step
\* fail, the netns entry of that node is deleted all the same.
C13_StopAttemptsAllSteps ==
    [][\A ids \in Orders(NodeIds), failing \in NodeIds \X (1..3) :
          /\ Destroy(ids, failing)
          /\ ids[1] = failing[1]
          /\ Registered(failing[1]) /\ netns[failing[1]] # 0
              => netns'[failing[1]] = 0]_vars

\* destroy has stopped the container of the enode registered under id.
Stopped(id) ==
    /\ Registered(id)
    /\ containers[nmlnode_node_map[id].container_id].state \in {"exited", "removed"}

\* C14: once destroy has stopped a node, no call registers, links or
\* finalizes a port of it: its port statuses stay as they are.
C14_StoppedIsTerminal ==
    [][\A e \in Endpoints :
          SameEnode(e[1]) /\ Stopped(e[1]) => StatusOf(e)' = StatusOf(e)]_vars

\* C15: an add_node that raises leaves the registry exactly as it was.
C15_AbortedAddNodeKeepsRegistry ==
    [][last'.op = "add_node" /\ last'.result # "ok"
          => UNCHANGED nmlnode_node_map]_vars

\* C15 witness: H2 is registered, and the add_node of H1 has just raised
\* out of start() with its container created: H1 is not in the registry.
C15_Witness ==
    /\ last.op = "add_node" /\ last.result \in {"APIError", "CalledProcessError"}
    /\ Registered("H2") /\ ~Registered("H1")
    /\ ByName(Machine, "H1") # 0

\* Both ends of the veth pair v are up, each in a namespace of a container.
FullyWired(v) ==
    /\ v.a.ns # HostNs /\ v.a.up
    /\ v.b.ns # HostNs /\ v.b.up

\* C17: whatever an add_bilink leaves of the pair it made shows the order
\* of the steps: an end is up only in a container's namespace, end B has
\* left the host namespace only if end A is moved and up; the call returns
\* exactly when the pair is fully wired, it raises otherwise, and it
\* changes port statuses only when it returns.
C17_WiringInOrder ==
    [][last'.op = "add_bilink"
          => /\ veths \subseteq veths'
             /\ \A v \in veths' \ veths :
                    /\ v.a.up => v.a.ns # HostNs
                    /\ v.b.up => v.b.ns # HostNs
                    /\ v.b.ns # HostNs => v.a.ns # HostNs /\ v.a.up
             /\ last'.result = "ok" <=> \E v \in veths' \ veths : FullyWired(v)
             /\ nmlnode_node_map' # nmlnode_node_map => last'.result = "ok"]_vars

\* C17 witness: an add_bilink has raised at its last step: end A is up in
\* its namespace, end B is moved and still down, no port is linked.
C17_Witness ==
    /\ last = Call("add_bilink", "CalledProcessError")
    /\ \E v \in veths :
           /\ v.a.ns # HostNs /\ v.a.up
           /\ v.b.ns # HostNs /\ ~v.b.up
    /\ \A e \in Endpoints : Registered(e[1]) /\ StatusOf(e) # "linked"

\* C18: an add_bilink that returns leaves both of its ports 'linked' and
\* every other port as it was; one that raises leaves the registry, port
\* statuses included, exactly as it was.
C18_LinkAllOrNothing ==
    [][last'.op = "add_bilink"
          => IF last'.result = "ok"
             THEN \A ea \in Endpoints, eb \in Endpoints :
                      AddBilink(ea[1], ea[2], eb[1], eb[2], 0)
                          => /\ StatusOf(ea)' = "linked"
                             /\ StatusOf(eb)' = "linked"
                             /\ \A e \in Endpoints \ {ea, eb} :
                                    Registered(e[1]) => StatusOf(e)' = StatusOf(e)
             ELSE UNCHANGED nmlnode_node_map]_vars

\* C18 witness: an add_bilink between H1.eth1 and H2.eth0 has raised with
\* the pair made and one end moved: both ports are still 'down'.
C18_Witness ==
    /\ last = Call("add_bilink", "CalledProcessError")
    /\ \E v \in veths : v.a.ns # HostNs /\ v.b.ns = HostNs
    /\ Registered("H1") /\ Registered("H2")
    /\ StatusOf(<<"H1", "eth1">>) = "down"
    /\ StatusOf(<<"H2", "eth0">>) = "down"

\* The taps made for port e of a registered node since add_port last
\* registered it.
MadeFor(e) == hist[e[1]].made[e[2]]

\* C19: no port has a tap made for it twice since it was last registered;
\* a post_build that makes a tap for a port leaves that port 'up', also
\* when it raises at a later port; a post_build called right after one
\* that returned returns, making nothing and changing no status.
C19_OneTapPerPort ==
    /\ [](\A e \in Endpoints : Registered(e[1]) => MadeFor(e) <= 1)
    /\ [][last'.op = "post_build"
             => \A e \in Endpoints :
                    Registered(e[1]) /\ MadeFor(e)' # MadeFor(e)
                        => StatusOf(e) = "down" /\ StatusOf(e)' = "up"]_vars
    /\ [][last = Call("post_build", "ok") /\ last'.op = "post_build"
             => /\ last'.result = "ok"
                /\ UNCHANGED <<nmlnode_node_map, containers, netns, veths, taps, hist>>]_vars

\* C19 witness: a post_build has raised part-way through the switch: the
\* tap of eth0 is made and eth0 is 'up', eth1 is still 'down'.
C19_Witness ==
    /\ last = Call("post_build", "CalledProcessError")
    /\ Registered("H1")
    /\ StatusOf(<<"H1", "eth0">>) = "up" /\ MadeFor(<<"H1", "eth0">>) = 1
    /\ TapOf(Machine, "H1", "eth0") \in taps
    /\ StatusOf(<<"H1", "eth1">>) = "down" /\ MadeFor(<<"H1", "eth1">>) = 0

\* The sequence s ends the sequence t.
IsSuffix(s, t) ==
    /\ Len(s) <= Len(t)
    /\ SubSeq(t, Len(t) - Len(s) + 1, Len(t)) = s

\* C16: when bash() returns, what it returns ends with everything the
\* node wrote for the command line just sent, through its prompt.
C16_NoSilentTruncation ==
    pc = "returned" => IsSuffix(Reply(sent), after)
====
